---- MODULE Spec2Model ----
(***************************************************************************)
(* scripts/fill-official-forms.py: the two form renderers, the two HTML    *)
(* converters built on an external office converter (soffice), and the     *)
(* driver main() with its final existence check and exit status.           *)
(*                                                                         *)
(* The file system is the set of paths that exist.  The external converter *)
(* is the environment: it may not be installed, may exit with or without   *)
(* having written its output, or may outlive the 60-unit wait, with or     *)
(* without having written its output first.                                *)
(***************************************************************************)
EXTENDS Integers, Sequences, FiniteSets, TLC

(* ------------------------------------------------------------------ *)
(* Paths (pathlib.Path): parent directory, stem and suffix.           *)
(* ------------------------------------------------------------------ *)
Path(parent, stem, suffix) ==
  [parent |-> parent, stem |-> stem, suffix |-> suffix]

\* Python's None, as a value comparable with a path.
None ==
  Path("", "None", "")

OUTPUT_DIR ==
  "attached_assets/completed_notices"

\* tempfile.gettempdir(): where NamedTemporaryFile creates its files.
TMPDIR ==
  "/tmp"

\* The names NamedTemporaryFile hands out: each call gets a name not in use.
TmpStems ==
  << "tmpaaaaaaa1", "tmpaaaaaaa2", "tmpaaaaaaa3", "tmpaaaaaaa4" >>

\* subprocess.run(..., timeout=60)
timeout ==
  60

\* Longest converter run considered, in the units of the timeout.
MaxDuration ==
  62

Durations ==
  (timeout - 1)..MaxDuration

\* What the converter may have written to its stderr.
StderrTexts ==
  { "", "Error: source file could not be loaded" }

(* ------------------------------------------------------------------ *)
(* The field mapping and the two templates.                            *)
(* ------------------------------------------------------------------ *)
SAMPLE_DATA ==
  [ tenant_name |-> "Sonia Shezadi",
    property_address |-> "35 Woodhall Park Avenue, Pudsey, LS28 7HF",
    landlord_name |-> "Tariq Mohammed",
    landlord_address |-> "1 Example Street, Leeds, LS1 1AA",
    landlord_phone |-> "07123 456789",
    s8_date_served |-> "01/01/2026",
    s8_earliest_proceedings |-> "15/01/2026",
    s8_grounds |-> "8, 10 and 11",
    s8_arrears_amount |-> "3,000.00",
    s8_rent_amount |-> "1,500.00",
    s8_ground_text |-> "Ground 8 - At both the date of the service of the notice and at the date of the hearing:\n(a) if rent is payable weekly or fortnightly, at least eight weeks' rent is unpaid;\n(b) if rent is payable monthly, at least two months' rent is unpaid.\n\nGround 10 - Some rent lawfully due from the tenant is unpaid on the date on which the proceedings for possession are begun.\n\nGround 11 - Whether or not any rent is in arrears on the date on which proceedings for possession are begun, the tenant has persistently delayed paying rent which has become lawfully due.",
    s8_particulars |-> "The tenant has failed to pay rent since October 2025. As of the date of this notice, rent arrears total GBP 3,000.00 (representing 2 months unpaid rent at GBP 1,500.00 per month).\n\nThe tenant has been in persistent arrears for the past 6 months despite multiple requests for payment. Letters were sent on 15/10/2025, 01/11/2025, and 15/11/2025 requesting payment of the outstanding rent.\n\nThe mandatory Ground 8 threshold is met as more than 2 months rent remains unpaid.",
    s21_service_date |-> "22/12/2025",
    s21_expiry_date |-> "14/07/2026" ]

\* A piece of an f-string: literal text, or a replacement field
\* {SAMPLE_DATA["key"]}.  Each template is the f-string cut at its line ends
\* and at its replacement fields; the document is the pieces joined.
Lit(text) ==
  [kind |-> "lit", text |-> text]

Field(key) ==
  [kind |-> "field", text |-> key]

Section8Template ==
  << Lit("<!DOCTYPE html>\n"),
     Lit("<html>\n"),
     Lit("<head>\n"),
     Lit("<meta charset=\"UTF-8\">\n"),
     Lit("<title>Form 3 - Section 8 Notice</title>\n"),
     Lit("<style>\n"),
     Lit("body { font-family: Arial, sans-serif; font-size: 11pt; line-height: 1.4; margin: 40px; }\n"),
     Lit("h1 { font-size: 14pt; font-weight: bold; text-align: center; margin-bottom: 5px; }\n"),
     Lit("h2 { font-size: 12pt; font-weight: bold; text-align: center; margin-top: 5px; }\n"),
     Lit(".header { text-align: center; margin-bottom: 20px; border-bottom: 2px solid black; padding-bottom: 10px; }\n"),
     Lit(".form-no { font-size: 16pt; font-weight: bold; }\n"),
     Lit(".section { margin-bottom: 15px; }\n"),
     Lit(".section-num { font-weight: bold; }\n"),
     Lit(".field-value { background-color: #f0f0f0; padding: 5px; border: 1px solid #ccc; margin: 5px 0; }\n"),
     Lit(".signature-block { margin-top: 30px; border-top: 1px solid black; padding-top: 20px; }\n"),
     Lit(".checkbox { font-family: 'Courier New', monospace; }\n"),
     Lit("hr { border: none; border-top: 1px solid black; margin: 20px 0; }\n"),
     Lit("</style>\n"),
     Lit("</head>\n"),
     Lit("<body>\n"),
     Lit("\n"),
     Lit("<div class=\"header\">\n"),
     Lit("<p class=\"form-no\">FORM NO. 3</p>\n"),
     Lit("<p><strong>Housing Act 1988 section 8 (as amended)</strong></p>\n"),
     Lit("<h1>NOTICE OF INTENTION TO BEGIN PROCEEDINGS FOR POSSESSION</h1>\n"),
     Lit("<h2>OF A PROPERTY IN ENGLAND</h2>\n"),
     Lit("<p>let on an Assured Tenancy or an Assured Agricultural Occupancy</p>\n"),
     Lit("</div>\n"),
     Lit("\n"),
     Lit("<hr>\n"),
     Lit("\n"),
     Lit("<div class=\"section\">\n"),
     Lit("<p><span class=\"section-num\">1. To:</span></p>\n"),
     Lit("<div class=\"field-value\">"),
     Field("tenant_name"),
     Lit("</div>\n"),
     Lit("</div>\n"),
     Lit("\n"),
     Lit("<div class=\"section\">\n"),
     Lit("<p><span class=\"section-num\">2. Your landlord/licensor intends to apply to the court for an order requiring you to give up possession of:</span></p>\n"),
     Lit("<div class=\"field-value\">"),
     Field("property_address"),
     Lit("</div>\n"),
     Lit("</div>\n"),
     Lit("\n"),
     Lit("<div class=\"section\">\n"),
     Lit("<p><span class=\"section-num\">3. Your landlord/licensor intends to seek possession on ground(s):</span></p>\n"),
     Lit("<div class=\"field-value\"><strong>Grounds "),
     Field("s8_grounds"),
     Lit("</strong></div>\n"),
     Lit("<p>in Schedule 2 to the Housing Act 1988 (as amended), which read(s):</p>\n"),
     Lit("<div class=\"field-value\" style=\"white-space: pre-wrap;\">"),
     Field("s8_ground_text"),
     Lit("</div>\n"),
     Lit("</div>\n"),
     Lit("\n"),
     Lit("<div class=\"section\">\n"),
     Lit("<p><span class=\"section-num\">4. Give a full explanation of why each ground is being relied on:</span></p>\n"),
     Lit("<div class=\"field-value\" style=\"white-space: pre-wrap;\">"),
     Field("s8_particulars"),
     Lit("\n"),
     Lit("\n"),
     Lit("Current rent arrears: GBP "),
     Field("s8_arrears_amount"),
     Lit("\n"),
     Lit("Monthly rent amount: GBP "),
     Field("s8_rent_amount"),
     Lit("</div>\n"),
     Lit("</div>\n"),
     Lit("\n"),
     Lit("<div class=\"section\">\n"),
     Lit("<p><span class=\"section-num\">5. The court proceedings will not begin earlier than:</span></p>\n"),
     Lit("<div class=\"field-value\">"),
     Field("s8_earliest_proceedings"),
     Lit("</div>\n"),
     Lit("</div>\n"),
     Lit("\n"),
     Lit("<div class=\"section\">\n"),
     Lit("<p><span class=\"section-num\">6.</span> The latest date for court proceedings to begin is <strong>12 months</strong> from the date of service of this notice.</p>\n"),
     Lit("</div>\n"),
     Lit("\n"),
     Lit("<div class=\"signature-block\">\n"),
     Lit("<p><span class=\"section-num\">7. Name and address of landlord, licensor or landlord's agent:</span></p>\n"),
     Lit("<p>(To be completed in full by the landlord, licensor, or, in the case of joint landlords/licensors, at least one of the joint landlords/licensors, or by someone authorised to give notice on the landlord's/licensor's behalf.)</p>\n"),
     Lit("\n"),
     Lit("<table style=\"margin-top: 15px;\">\n"),
     Lit("<tr><td style=\"width: 120px;\"><strong>Signed:</strong></td><td>[Signed]</td></tr>\n"),
     Lit("<tr><td><strong>Name:</strong></td><td>"),
     Field("landlord_name"),
     Lit("</td></tr>\n"),
     Lit("<tr><td><strong>Address:</strong></td><td>"),
     Field("landlord_address"),
     Lit("</td></tr>\n"),
     Lit("<tr><td><strong>Telephone:</strong></td><td>"),
     Field("landlord_phone"),
     Lit("</td></tr>\n"),
     Lit("</table>\n"),
     Lit("\n"),
     Lit("<p style=\"margin-top: 15px;\"><strong>Capacity (please tick):</strong></p>\n"),
     Lit("<p class=\"checkbox\">[X] landlord/licensor &nbsp;&nbsp; [ ] joint landlord(s)/licensor(s) &nbsp;&nbsp; [ ] landlord's/licensor's agent</p>\n"),
     Lit("\n"),
     Lit("<p style=\"margin-top: 15px;\"><strong>Date:</strong> "),
     Field("s8_date_served"),
     Lit("</p>\n"),
     Lit("</div>\n"),
     Lit("\n"),
     Lit("<hr>\n"),
     Lit("<p style=\"text-align: center; font-style: italic;\">This notice was served on: "),
     Field("s8_date_served"),
     Lit("</p>\n"),
     Lit("\n"),
     Lit("</body>\n"),
     Lit("</html>\n") >>

Section21Template ==
  << Lit("<!DOCTYPE html>\n"),
     Lit("<html>\n"),
     Lit("<head>\n"),
     Lit("<meta charset=\"UTF-8\">\n"),
     Lit("<title>Form 6A - Section 21 Notice</title>\n"),
     Lit("<style>\n"),
     Lit("body { font-family: Arial, sans-serif; font-size: 11pt; line-height: 1.4; margin: 40px; }\n"),
     Lit("h1 { font-size: 14pt; font-weight: bold; text-align: center; margin-bottom: 5px; }\n"),
     Lit("h2 { font-size: 12pt; font-weight: bold; text-align: center; margin-top: 5px; }\n"),
     Lit(".header { text-align: center; margin-bottom: 20px; border-bottom: 2px solid black; padding-bottom: 10px; }\n"),
     Lit(".form-no { font-size: 16pt; font-weight: bold; }\n"),
     Lit(".section { margin-bottom: 15px; }\n"),
     Lit(".section-num { font-weight: bold; }\n"),
     Lit(".field-value { background-color: #f0f0f0; padding: 5px; border: 1px solid #ccc; margin: 5px 0; }\n"),
     Lit(".signature-block { margin-top: 30px; border-top: 1px solid black; padding-top: 20px; }\n"),
     Lit(".checkbox { font-family: 'Courier New', monospace; }\n"),
     Lit("hr { border: none; border-top: 1px solid black; margin: 20px 0; }\n"),
     Lit("</style>\n"),
     Lit("</head>\n"),
     Lit("<body>\n"),
     Lit("\n"),
     Lit("<div class=\"header\">\n"),
     Lit("<p class=\"form-no\">FORM NO. 6A</p>\n"),
     Lit("<p><strong>Housing Act 1988 section 21(1) and (4) (as amended)</strong></p>\n"),
     Lit("<h1>NOTICE REQUIRING POSSESSION</h1>\n"),
     Lit("<h2>OF A PROPERTY IN ENGLAND</h2>\n"),
     Lit("<p>let on an Assured Shorthold Tenancy</p>\n"),
     Lit("</div>\n"),
     Lit("\n"),
     Lit("<hr>\n"),
     Lit("\n"),
     Lit("<div class=\"section\">\n"),
     Lit("<p><span class=\"section-num\">1. To:</span></p>\n"),
     Lit("<div class=\"field-value\">"),
     Field("tenant_name"),
     Lit("</div>\n"),
     Lit("</div>\n"),
     Lit("\n"),
     Lit("<div class=\"section\">\n"),
     Lit("<p><span class=\"section-num\">2. You are required to leave the below address after:</span></p>\n"),
     Lit("<div class=\"field-value\">"),
     Field("s21_expiry_date"),
     Lit("</div>\n"),
     Lit("\n"),
     Lit("<p>If you do not leave, your landlord may apply to the court for an order under Section 21(1) or (4) of the Housing Act 1988 requiring you to give up possession of:</p>\n"),
     Lit("<div class=\"field-value\">"),
     Field("property_address"),
     Lit("</div>\n"),
     Lit("\n"),
     Lit("<p style=\"margin-top: 10px;\">If your landlord does not apply to the court within a given timeframe this notice will lapse. Your landlord can rely on this notice to apply to the court during the period of 6 months commencing from the date this notice is given to you.</p>\n"),
     Lit("</div>\n"),
     Lit("\n"),
     Lit("<div class=\"signature-block\">\n"),
     Lit("<p><span class=\"section-num\">3. Name and address of landlord or landlord's agent:</span></p>\n"),
     Lit("<p>(To be completed in full by the landlord, or, in the case of joint landlords, at least one of the joint landlords, or by someone authorised to give notice on the landlord's behalf.)</p>\n"),
     Lit("\n"),
     Lit("<table style=\"margin-top: 15px;\">\n"),
     Lit("<tr><td style=\"width: 120px;\"><strong>Signed:</strong></td><td>[Signed]</td></tr>\n"),
     Lit("<tr><td><strong>Name:</strong></td><td>"),
     Field("landlord_name"),
     Lit("</td></tr>\n"),
     Lit("<tr><td><strong>Address:</strong></td><td>"),
     Field("landlord_address"),
     Lit("</td></tr>\n"),
     Lit("<tr><td><strong>Telephone:</strong></td><td>"),
     Field("landlord_phone"),
     Lit("</td></tr>\n"),
     Lit("</table>\n"),
     Lit("\n"),
     Lit("<p style=\"margin-top: 15px;\"><strong>Capacity (please tick):</strong></p>\n"),
     Lit("<p class=\"checkbox\">[X] landlord &nbsp;&nbsp; [ ] joint landlord(s) &nbsp;&nbsp; [ ] landlord's agent</p>\n"),
     Lit("\n"),
     Lit("<p style=\"margin-top: 15px;\"><strong>Date:</strong> "),
     Field("s21_service_date"),
     Lit("</p>\n"),
     Lit("</div>\n"),
     Lit("\n"),
     Lit("<hr>\n"),
     Lit("<p style=\"text-align: center; font-style: italic;\">This notice was served on: "),
     Field("s21_service_date"),
     Lit("</p>\n"),
     Lit("\n"),
     Lit("</body>\n"),
     Lit("</html>\n") >>

\* A replacement field that substitutes nothing.
InterpolateBlank(piece) ==
  IF piece.kind = "field" THEN "" ELSE piece.text

\* What an f-string contributes for one piece: the literal text itself, or the
\* mapping's value under the key of the replacement field.
Interpolate(piece) ==
  IF piece.kind = "field" THEN SAMPLE_DATA[piece.text] ELSE piece.text

\* The rendered document, piece by piece.
Render(template) ==
  [i \in DOMAIN template |-> Interpolate(template[i])]

create_section8_html ==
  Render(Section8Template)

create_section21_html ==
  Render(Section21Template)

(* ------------------------------------------------------------------ *)
(* main()'s paths and its four conversions, in program order.          *)
(* ------------------------------------------------------------------ *)
s8_odt ==
  Path(OUTPUT_DIR, "completed_section_8_form_3", ".odt")

s8_pdf ==
  Path(OUTPUT_DIR, "completed_section_8_form_3", ".pdf")

s21_odt ==
  Path(OUTPUT_DIR, "completed_section_21_form_6a", ".odt")

s21_pdf ==
  Path(OUTPUT_DIR, "completed_section_21_form_6a", ".pdf")

\* A verification list that leaves the PDFs out.
all_files_odt_only ==
  << s8_odt, s21_odt >>

all_files ==
  << s8_odt, s8_pdf, s21_odt, s21_pdf >>

\* The calls main() makes, in order: function, document and output path.
Invocations ==
  << [fn |-> "convert_html_to_odt", html |-> "s8_html", output_path |-> s8_odt],
     [fn |-> "convert_html_to_pdf", html |-> "s8_html", output_path |-> s8_pdf],
     [fn |-> "convert_html_to_odt", html |-> "s21_html", output_path |-> s21_odt],
     [fn |-> "convert_html_to_pdf", html |-> "s21_html", output_path |-> s21_pdf] >>

\* The suffix each converter function appends to the temporary stem, which is
\* also the format it passes to --convert-to.
TargetSuffix(fn) ==
  IF fn = "convert_html_to_pdf" THEN ".pdf" ELSE ".odt"

\* generated_pdf / generated_odt: output_path.parent / (html_file.stem + suffix)
generated(fn, output_path, tmp) ==
  Path(output_path.parent, tmp.stem, TargetSuffix(fn))

\* The tag of the warning each function prints.
WarningTag(fn) ==
  IF fn = "convert_html_to_pdf" THEN "PDF not created" ELSE "ODT not created"

(* ------------------------------------------------------------------ *)
(* File-system and process primitives.                                 *)
(* ------------------------------------------------------------------ *)
exists(files, p) ==
  p \in files

\* A relocation that copies and leaves the source in place.
rename_keeping_source(files, src, dst) ==
  files \cup {dst}

\* Path.rename on POSIX: the source name goes, the target name exists
\* (replacing a file already there).
rename(files, src, dst) ==
  (files \ {src}) \cup {dst}

\* Path.unlink(missing_ok=True)
unlink(files, p) ==
  files \ {p}

\* A wait that returns while the child is still running.
reap_leaving_child(procs, p) ==
  procs

\* subprocess.run returns or raises only once the child is gone: it waits for
\* the child to exit, and on timeout kills it and waits for it.
reap(procs, p) ==
  procs \ {p}

\* An exit status that is always success.
main_return_always_zero(miss) ==
  0

\* main()'s return value, handed to exit().
main_return(miss) ==
  IF miss # << >> THEN 1 ELSE 0

\* missing = [f for f in all_files if not f.exists()]
missing_files(files) ==
  SelectSeq(all_files, LAMBDA f : ~ exists(files, f))

\* The files of the output directory.
OutDir(files) ==
  { p \in files : p.parent = OUTPUT_DIR }

(* ------------------------------------------------------------------ *)
(* State.                                                              *)
(* ------------------------------------------------------------------ *)
VARIABLES
  pc,         \* where the script is
  idx,        \* which of main()'s four conversions is current (0: none yet)
  fs,         \* the paths that exist
  html_file,  \* the current conversion's temporary input, or None
  ntemp,      \* how many temporary names have been handed out
  active,     \* the converter processes that are running
  elapsed,    \* how long the running converter takes
  conv,       \* what the converter did in the current conversion
  result,     \* the CompletedProcess of the current conversion
  s8_html,    \* main()'s s8_html
  s21_html,   \* main()'s s21_html
  stdout,     \* the warnings the conversions printed
  missing,    \* the list main() reports as missing
  raised,     \* the exception that ended the script, or "none"
  status,     \* the process exit status, -1 while the script runs
  fs0,        \* history: the paths that existed when the script started
  before,     \* history: the paths that existed when the current conversion was called
  atcheck,    \* history: the paths that existed when subprocess.run returned
  calls,      \* history: the conversions called so far
  log         \* history: one record per conversion that has ended

vars ==
  << pc, idx, fs, html_file, ntemp, active, elapsed, conv, result, s8_html,
     s21_html, stdout, missing, raised, status, fs0, before, atcheck, calls, log >>

\* result before subprocess.run has returned.
NoResult ==
  [stderr |-> "<unbound>"]

\* The files a run can find in place when it starts: artifacts of an earlier run.
Init ==
  /\ pc = "main"
  /\ idx = 0
  /\ fs \in SUBSET { all_files[i] : i \in DOMAIN all_files }
  /\ fs0 = fs
  /\ html_file = None
  /\ ntemp = 0
  /\ active = {}
  /\ elapsed = 0
  /\ conv = "idle"
  /\ result = NoResult
  /\ s8_html = << >>
  /\ s21_html = << >>
  /\ stdout = << >>
  /\ missing = << >>
  /\ raised = "none"
  /\ status = -1
  /\ before = {}
  /\ atcheck = {}
  /\ calls = << >>
  /\ log = << >>

\* The record of the current conversion as it ends.
Ended(files, did, how, value, exc, res) ==
  [ call |-> Invocations[idx], tmp |-> html_file, before |-> before,
    atcheck |-> atcheck, after |-> files, converter |-> did, how |-> how,
    value |-> value, exc |-> exc, stderr |-> res.stderr ]

\* Where main() goes on after its idx-th conversion has returned.
AfterReturn(i) ==
  IF i = 2 THEN "main_section21"
  ELSE IF i = Len(Invocations) THEN "main_verify"
  ELSE "conv_tempfile"

\* An exception nothing catches: the traceback is printed and the interpreter
\* exits with status 1.
Uncaught(exc) ==
  /\ pc' = "exited"
  /\ raised' = exc
  /\ status' = 1
  /\ html_file' = None
  /\ elapsed' = 0
  /\ conv' = "idle"
  /\ result' = NoResult
  /\ UNCHANGED << idx, ntemp, s8_html, s21_html, stdout, missing, fs0, before,
                  atcheck, calls >>

(* ------------------------------------------------------------------ *)
(* main(), up to its first conversion.                                 *)
(* ------------------------------------------------------------------ *)
main_section8 ==
  /\ pc = "main"
  /\ s8_html' = create_section8_html
  /\ idx' = 1
  /\ pc' = "conv_tempfile"
  /\ UNCHANGED << fs, html_file, ntemp, active, elapsed, conv, result, s21_html,
                  stdout, missing, raised, status, fs0, before, atcheck, calls, log >>

(* ------------------------------------------------------------------ *)
(* convert_html_to_pdf / convert_html_to_odt, step by step.            *)
(* ------------------------------------------------------------------ *)
\* with tempfile.NamedTemporaryFile(mode='w', suffix='.html', delete=False) as f:
NamedTemporaryFile ==
  /\ pc = "conv_tempfile"
  /\ ntemp' = ntemp + 1
  /\ html_file' = Path(TMPDIR, TmpStems[ntemp + 1], ".html")
  /\ fs' = fs \cup {html_file'}
  /\ before' = fs
  /\ calls' = Append(calls, Invocations[idx])
  /\ pc' = "conv_write"
  /\ UNCHANGED << idx, active, elapsed, conv, result, s8_html, s21_html, stdout,
                  missing, raised, status, fs0, atcheck, log >>

\* f.write(html_content), and the flush as the with block closes the file.
\* The write can fail (no space left on the device); the with block is outside
\* the try, so the exception leaves the function with the file in place.
write_html ==
  /\ pc = "conv_write"
  /\ \E ok \in BOOLEAN :
       IF ok
       THEN /\ pc' = "conv_spawn"
            /\ UNCHANGED << idx, fs, html_file, ntemp, active, elapsed, conv, result,
                            s8_html, s21_html, stdout, missing, raised, status, fs0,
                            before, atcheck, calls, log >>
       ELSE /\ log' = Append(log, Ended(fs, "not_run", "raised", None, "OSError", NoResult))
            /\ Uncaught("OSError")
            /\ UNCHANGED << fs, active >>

\* subprocess.run([...'soffice'...], timeout=60): starting the child.  Without
\* the executable the call raises FileNotFoundError inside the try.
spawn ==
  /\ pc = "conv_spawn"
  /\ \E found \in BOOLEAN :
       IF found
       THEN /\ active' = active \cup {idx}
            /\ \E d \in Durations : elapsed' = d
            /\ conv' = "running"
            /\ pc' = "conv_wait"
            /\ UNCHANGED << idx, fs, html_file, ntemp, result, s8_html, s21_html,
                            stdout, missing, raised, status, fs0, before, atcheck,
                            calls, log >>
       ELSE /\ fs' = unlink(fs, html_file)
            /\ log' = Append(log, Ended(fs', "not_found", "raised", None,
                                        "FileNotFoundError", NoResult))
            /\ Uncaught("FileNotFoundError")
            /\ UNCHANGED active

\* The child exits within the wait, having written its output (named after the
\* input's stem, in --outdir) or not; subprocess.run returns.
converter_exits ==
  /\ pc = "conv_wait"
  /\ elapsed <= timeout
  /\ \E wrote \in BOOLEAN, err \in StderrTexts :
       /\ fs' = IF wrote
                THEN fs \cup {generated(Invocations[idx].fn,
                                        Invocations[idx].output_path, html_file)}
                ELSE fs
       /\ conv' = IF wrote THEN "exited_with_file" ELSE "exited_without_file"
       /\ result' = [stderr |-> err]
  /\ atcheck' = fs'
  /\ active' = reap(active, idx)
  /\ elapsed' = 0
  /\ pc' = "conv_finish"
  /\ UNCHANGED << idx, html_file, ntemp, s8_html, s21_html, stdout, missing,
                  raised, status, fs0, before, calls, log >>

\* The child outlives the wait: subprocess.run kills it and raises
\* TimeoutExpired, the finally clause unlinks the input and nothing catches
\* the exception.  The child may have written its output before it hung.
timeout_expired ==
  /\ pc = "conv_wait"
  /\ elapsed >= timeout
  /\ active' = reap(active, idx)
  /\ \E wrote \in BOOLEAN :
       LET did == IF wrote THEN "timeout_with_file" ELSE "timeout_without_file"
           out == IF wrote
                  THEN fs \cup {generated(Invocations[idx].fn,
                                          Invocations[idx].output_path, html_file)}
                  ELSE fs
       IN /\ fs' = unlink(out, html_file)
          /\ log' = Append(log, Ended(fs', did, "raised", None, "TimeoutExpired",
                                      NoResult))
  /\ Uncaught("TimeoutExpired")

\* After subprocess.run has returned: the rename, the existence check, the
\* return, and the finally clause.
conv_finish ==
  /\ pc = "conv_finish"
  /\ LET fn == Invocations[idx].fn
         output_path == Invocations[idx].output_path
         gen == generated(fn, output_path, html_file)
         renamed == IF exists(fs, gen) /\ gen # output_path
                    THEN rename(fs, gen, output_path)
                    ELSE fs
         value == IF ~ exists(renamed, output_path) THEN None ELSE output_path
     IN /\ stdout' = IF value = None
                     THEN Append(stdout, [tag |-> WarningTag(fn), stderr |-> result.stderr])
                     ELSE stdout
        /\ fs' = unlink(renamed, html_file)
        /\ log' = Append(log, Ended(fs', conv, "returned", value, "none", result))
  /\ html_file' = None
  /\ conv' = "idle"
  /\ result' = NoResult
  /\ pc' = AfterReturn(idx)
  /\ idx' = IF idx < Len(Invocations) /\ AfterReturn(idx) = "conv_tempfile"
            THEN idx + 1 ELSE idx
  /\ UNCHANGED << ntemp, active, elapsed, s8_html, s21_html, missing, raised,
                  status, fs0, before, atcheck, calls >>

(* ------------------------------------------------------------------ *)
(* main(), between the forms and at the end.                           *)
(* ------------------------------------------------------------------ *)
main_section21 ==
  /\ pc = "main_section21"
  /\ s21_html' = create_section21_html
  /\ idx' = idx + 1
  /\ pc' = "conv_tempfile"
  /\ UNCHANGED << fs, html_file, ntemp, active, elapsed, conv, result, s8_html,
                  stdout, missing, raised, status, fs0, before, atcheck, calls, log >>

\* The summary, the existence check and exit(main()).
main_verify ==
  /\ pc = "main_verify"
  /\ missing' = missing_files(fs)
  /\ status' = main_return(missing')
  /\ pc' = "exited"
  /\ UNCHANGED << idx, fs, html_file, ntemp, active, elapsed, conv, result,
                  s8_html, s21_html, stdout, raised, fs0, before, atcheck, calls, log >>

Next ==
  \/ main_section8
  \/ NamedTemporaryFile
  \/ write_html
  \/ spawn
  \/ converter_exits
  \/ timeout_expired
  \/ conv_finish
  \/ main_section21
  \/ main_verify

Spec ==
  Init /\ [][Next]_vars

(* ------------------------------------------------------------------ *)
(* Vocabulary of the properties.                                       *)
(* ------------------------------------------------------------------ *)
Expected ==
  { s8_odt, s8_pdf, s21_odt, s21_pdf }

Exited ==
  pc = "exited"

\* The converter of a conversion ran to an end of its own or to the timeout.
ConverterRan(rec) ==
  rec.converter \in { "exited_with_file", "exited_without_file",
                      "timeout_with_file", "timeout_without_file" }

\* The converter of a conversion failed or timed out: it exited without
\* writing its output, or outlived the wait.
ConverterFailed(rec) ==
  rec.converter \in { "exited_without_file", "timeout_with_file",
                      "timeout_without_file" }

\* The converter of a conversion ended without leaving any output.
ConverterLeftNothing(rec) ==
  rec.converter \in { "not_found", "exited_without_file", "timeout_without_file" }

TimedOut(rec) ==
  rec.converter \in { "timeout_with_file", "timeout_without_file" }

\* No conversion is between its call and its end.
BetweenConversions ==
  pc \in { "main", "conv_tempfile", "main_section21", "main_verify", "exited" }

TempFiles(files) ==
  { p \in files : p.parent = TMPDIR }

Contains(html, value) ==
  \E i \in DOMAIN html : html[i] = value

(* ------------------------------------------------------------------ *)
(* C1. Whenever the script has exited, its exit status is 0 if all     *)
(* four expected artifacts exist on disk and 1 otherwise, whatever the *)
(* converter did in each conversion.                                   *)
(* ------------------------------------------------------------------ *)
C1_ExitStatusTracksArtifacts ==
  (Exited /\ \A i \in DOMAIN log : ConverterRan(log[i]))
    => status = (IF Expected \subseteq fs THEN 0 ELSE 1)

(* ------------------------------------------------------------------ *)
(* C2. Once a conversion has ended, by return or by any exception      *)
(* raised after its temporary input was created, that temporary input  *)
(* no longer exists; so between conversions no temporary file exists.  *)
(* ------------------------------------------------------------------ *)
C2_TempInputAlwaysRemoved ==
  /\ \A i \in DOMAIN log : log[i].tmp \notin log[i].after
  /\ BetweenConversions => TempFiles(fs) = {}

(* ------------------------------------------------------------------ *)
(* C3. If the converter of a conversion failed or timed out, the       *)
(* declared output path does not exist when the conversion ends,       *)
(* whatever the output directory held when the script started.         *)
(* ------------------------------------------------------------------ *)
C3_FailedConversionLeavesNoOutput ==
  \A i \in DOMAIN log :
    ConverterFailed(log[i]) => log[i].call.output_path \notin log[i].after

(* ------------------------------------------------------------------ *)
(* C4. Whenever the output path does not exist as a conversion ends,   *)
(* the conversion has returned None and printed a warning carrying the *)
(* converter's stderr; this covers a converter that exits without a    *)
(* file and one that outlives the wait.                                *)
(* ------------------------------------------------------------------ *)
C4_MissingOutputReturnsNoneWithDiagnostic ==
  \A i \in DOMAIN log :
    (ConverterRan(log[i]) /\ log[i].call.output_path \notin log[i].after)
      => /\ log[i].how = "returned"
         /\ log[i].value = None
         /\ Contains(stdout, [tag |-> WarningTag(log[i].call.fn),
                              stderr |-> log[i].stderr])

(* ------------------------------------------------------------------ *)
(* C5. A conversion whose converter failed or timed out is not         *)
(* retried, and the script still calls the remaining conversions and   *)
(* reaches the final existence check: a script that has exited after   *)
(* such a conversion has called all four conversions, each once, and   *)
(* has exited through the check.                                       *)
(* ------------------------------------------------------------------ *)
C5_FailureDoesNotStopTheDriver ==
  (Exited /\ \E i \in DOMAIN log : ConverterFailed(log[i]))
    => /\ calls = Invocations
       /\ Len(log) = Len(Invocations)
       /\ raised = "none"
       /\ missing = missing_files(fs)

(* ------------------------------------------------------------------ *)
(* C6. A run that starts with an empty output directory and whose      *)
(* converter works in all four conversions leaves exactly the four     *)
(* artifacts in the output directory, none under a temporary stem, and *)
(* exits with status 0; a run that starts with an empty output         *)
(* directory and whose converter leaves no output in any conversion    *)
(* leaves the output directory empty and exits with status 1.          *)
(* ------------------------------------------------------------------ *)
ConverterAlwaysWorked ==
  /\ Len(log) = Len(Invocations)
  /\ \A i \in DOMAIN log : log[i].converter = "exited_with_file"

ConverterAlwaysFailed ==
  /\ log # << >>
  /\ \A i \in DOMAIN log : ConverterLeftNothing(log[i])

C6_FullRunFilesAndStatus ==
  (Exited /\ fs0 = {})
    => /\ ConverterAlwaysWorked
            => /\ OutDir(fs) = Expected
               /\ Cardinality(OutDir(fs)) = 4
               /\ \A p \in OutDir(fs), n \in DOMAIN TmpStems : p.stem # TmpStems[n]
               /\ status = 0
       /\ ConverterAlwaysFailed
            => /\ Cardinality(OutDir(fs)) = 0
               /\ status = 1

C6_Witness ==
  /\ Exited
  /\ fs0 = {}
  /\ ConverterAlwaysWorked
  /\ ntemp = 4
  /\ status = 0

\* The other half of C6 happens too: four conversions, none with output.
C6_FailingRunReached ==
  /\ Exited
  /\ fs0 = {}
  /\ ConverterAlwaysFailed
  /\ Len(log) = Len(Invocations)
  /\ status = 1

(* ------------------------------------------------------------------ *)
(* C7. At most one converter process runs at any time, and only while  *)
(* its conversion waits for it: by the time subprocess.run returns or  *)
(* raises, the process is gone.  Every conversion has ended before the *)
(* next is called, and the conversions are called in the order         *)
(* Section 8 ODT, Section 8 PDF, Section 21 ODT, Section 21 PDF.       *)
(* ------------------------------------------------------------------ *)
FixedOrder ==
  << << "s8_html", "completed_section_8_form_3", ".odt" >>,
     << "s8_html", "completed_section_8_form_3", ".pdf" >>,
     << "s21_html", "completed_section_21_form_6a", ".odt" >>,
     << "s21_html", "completed_section_21_form_6a", ".pdf" >> >>

C7_SequentialExecution ==
  /\ Cardinality(active) <= 1
  /\ active # {} => (pc = "conv_wait" /\ active = {idx})
  /\ pc = "conv_wait" => active = {idx}
  /\ Len(calls) <= Len(FixedOrder)
  /\ \A i \in DOMAIN calls :
       /\ << calls[i].html, calls[i].output_path.stem, TargetSuffix(calls[i].fn) >>
            = FixedOrder[i]
       /\ calls[i].output_path.suffix = TargetSuffix(calls[i].fn)
  /\ Len(calls) = Len(log) + (IF BetweenConversions THEN 0 ELSE 1)

C7_Witness ==
  /\ pc = "conv_wait"
  /\ idx = 4
  /\ active = {4}
  /\ Len(log) = 3
  /\ elapsed > timeout

(* ------------------------------------------------------------------ *)
(* C8. The places of the two forms: each value with the literal text   *)
(* that leads to it.                                                   *)
(* ------------------------------------------------------------------ *)
Slot(lead, key) ==
  [lead |-> lead, key |-> key]

Section8Slots ==
  { Slot(<< "<p><span class=\"section-num\">1. To:</span></p>\n",
            "<div class=\"field-value\">" >>, "tenant_name"),
    Slot(<< "<p><span class=\"section-num\">2. Your landlord/licensor intends to apply to the court for an order requiring you to give up possession of:</span></p>\n",
            "<div class=\"field-value\">" >>, "property_address"),
    Slot(<< "<p><span class=\"section-num\">3. Your landlord/licensor intends to seek possession on ground(s):</span></p>\n",
            "<div class=\"field-value\"><strong>Grounds " >>, "s8_grounds"),
    Slot(<< "<p>in Schedule 2 to the Housing Act 1988 (as amended), which read(s):</p>\n",
            "<div class=\"field-value\" style=\"white-space: pre-wrap;\">" >>, "s8_ground_text"),
    Slot(<< "<p><span class=\"section-num\">4. Give a full explanation of why each ground is being relied on:</span></p>\n",
            "<div class=\"field-value\" style=\"white-space: pre-wrap;\">" >>, "s8_particulars"),
    Slot(<< "Current rent arrears: GBP " >>, "s8_arrears_amount"),
    Slot(<< "Monthly rent amount: GBP " >>, "s8_rent_amount"),
    Slot(<< "<p><span class=\"section-num\">5. The court proceedings will not begin earlier than:</span></p>\n",
            "<div class=\"field-value\">" >>, "s8_earliest_proceedings"),
    Slot(<< "<tr><td><strong>Name:</strong></td><td>" >>, "landlord_name"),
    Slot(<< "<tr><td><strong>Address:</strong></td><td>" >>, "landlord_address"),
    Slot(<< "<tr><td><strong>Telephone:</strong></td><td>" >>, "landlord_phone"),
    Slot(<< "<p style=\"margin-top: 15px;\"><strong>Date:</strong> " >>, "s8_date_served"),
    Slot(<< "<p style=\"text-align: center; font-style: italic;\">This notice was served on: " >>,
         "s8_date_served") }

Section21Slots ==
  { Slot(<< "<p><span class=\"section-num\">1. To:</span></p>\n",
            "<div class=\"field-value\">" >>, "tenant_name"),
    Slot(<< "<p><span class=\"section-num\">2. You are required to leave the below address after:</span></p>\n",
            "<div class=\"field-value\">" >>, "s21_expiry_date"),
    Slot(<< "<p>If you do not leave, your landlord may apply to the court for an order under Section 21(1) or (4) of the Housing Act 1988 requiring you to give up possession of:</p>\n",
            "<div class=\"field-value\">" >>, "property_address"),
    Slot(<< "<tr><td><strong>Name:</strong></td><td>" >>, "landlord_name"),
    Slot(<< "<tr><td><strong>Address:</strong></td><td>" >>, "landlord_address"),
    Slot(<< "<tr><td><strong>Telephone:</strong></td><td>" >>, "landlord_phone"),
    Slot(<< "<p style=\"margin-top: 15px;\"><strong>Date:</strong> " >>, "s21_service_date"),
    Slot(<< "<p style=\"text-align: center; font-style: italic;\">This notice was served on: " >>,
         "s21_service_date") }

\* The fields each form is about: those of both forms, and its own.
CommonFields ==
  { "tenant_name", "property_address", "landlord_name", "landlord_address",
    "landlord_phone" }

Section8Fields ==
  CommonFields \cup { "s8_date_served", "s8_earliest_proceedings", "s8_grounds",
                      "s8_arrears_amount", "s8_rent_amount", "s8_ground_text",
                      "s8_particulars" }

Section21Fields ==
  CommonFields \cup { "s21_service_date", "s21_expiry_date" }

\* The value of the slot's field stands right after the slot's lead.
Filled(html, slot) ==
  \E i \in DOMAIN html :
    /\ i > Len(slot.lead)
    /\ html[i] = SAMPLE_DATA[slot.key]
    /\ \A j \in DOMAIN slot.lead : html[i - Len(slot.lead) + j - 1] = slot.lead[j]

(* C8 as stated. Each rendered document contains the value of every    *)
(* field of SAMPLE_DATA.                                               *)
C8_EveryFieldInEachDocument ==
  /\ s8_html # << >>
       => \A k \in DOMAIN SAMPLE_DATA : Contains(s8_html, SAMPLE_DATA[k])
  /\ s21_html # << >>
       => \A k \in DOMAIN SAMPLE_DATA : Contains(s21_html, SAMPLE_DATA[k])

(* ------------------------------------------------------------------ *)
(* C8, amended. Each rendered document contains, in its designated     *)
(* place, the value of every field its form is about: the common       *)
(* fields and the s8_ fields in the Section 8 document, the common     *)
(* fields and the s21_ fields in the Section 21 document.              *)
(* ------------------------------------------------------------------ *)
C8_EveryFieldOfTheFormInItsPlace ==
  /\ s8_html # << >>
       => /\ \A slot \in Section8Slots : Filled(s8_html, slot)
          /\ \A k \in Section8Fields : \E slot \in Section8Slots : slot.key = k
  /\ s21_html # << >>
       => /\ \A slot \in Section21Slots : Filled(s21_html, slot)
          /\ \A k \in Section21Fields : \E slot \in Section21Slots : slot.key = k
  /\ Section8Fields \cup Section21Fields = DOMAIN SAMPLE_DATA

C8_Witness ==
  /\ Len(s8_html) = Len(Section8Template)
  /\ Len(s21_html) = Len(Section21Template)
  /\ Contains(s8_html, SAMPLE_DATA.s8_grounds)
  /\ Contains(s21_html, SAMPLE_DATA.s21_expiry_date)

(* ------------------------------------------------------------------ *)
(* C9. In a conversion whose converter has run and returned: if the    *)
(* generated file (temporary stem plus target suffix, in the           *)
(* destination directory) exists and is not the desired path, then     *)
(* when the conversion ends a file exists at the desired path, no file *)
(* of the destination directory bears the temporary stem, and the      *)
(* conversion has returned the desired path.  In any conversion where  *)
(* no generated file exists, the destination directory ends as it      *)
(* began.                                                              *)
(* ------------------------------------------------------------------ *)
GeneratedOf(rec) ==
  Path(rec.call.output_path.parent, rec.tmp.stem, rec.call.output_path.suffix)

C9_GeneratedFileIsRelocated ==
  \A i \in DOMAIN log :
    LET rec == log[i]
        out == rec.call.output_path
    IN /\ (rec.how = "returned" /\ GeneratedOf(rec) \in rec.atcheck
             /\ GeneratedOf(rec) # out)
            => /\ out \in rec.after
               /\ \A p \in OutDir(rec.after) : p.stem # rec.tmp.stem
               /\ OutDir(rec.after) = OutDir(rec.before) \cup {out}
               /\ rec.value = out
       /\ (GeneratedOf(rec) \notin rec.atcheck /\ GeneratedOf(rec) \notin rec.after)
            => OutDir(rec.after) = OutDir(rec.before)

C9_Witness ==
  /\ Len(log) >= 2
  /\ log[1].how = "returned"
  /\ GeneratedOf(log[1]) \in log[1].atcheck
  /\ log[1].call.output_path \in log[1].before
  /\ log[1].value = log[1].call.output_path
  /\ log[2].how = "returned"
  /\ GeneratedOf(log[2]) \notin log[2].atcheck
  /\ log[2].value = None

(* ------------------------------------------------------------------ *)
(* C10. The existence check is made only after all four conversions    *)
(* have been called and have returned; the list it reports is exactly  *)
(* the expected paths that do not exist at that moment, and the exit   *)
(* status follows from that list alone.                                *)
(* ------------------------------------------------------------------ *)
Range(seq) ==
  { seq[i] : i \in DOMAIN seq }

Verified ==
  Exited /\ raised = "none"

C10_CheckAfterAllConversions ==
  /\ (Verified \/ pc = "main_verify")
       => /\ calls = Invocations
          /\ Len(log) = Len(Invocations)
          /\ \A i \in DOMAIN log : log[i].how = "returned"
  /\ Verified
       => /\ Range(missing) = { p \in Expected : p \notin fs }
          /\ Len(missing) = Cardinality(Range(missing))
          /\ status = (IF \E p \in Expected : p \notin fs THEN 1 ELSE 0)
  /\ ~ Verified => missing = << >>
  /\ ~ Exited => status = -1

C10_Witness ==
  /\ Verified
  /\ missing = << s8_pdf, s21_odt >>
  /\ status = 1

====
